---- MODULE Spec2Model ----
(***************************************************************************)
(* Model of the relayer status aggregator, web/functions/api/status.ts:    *)
(* onRequest resolves the price-feed identifiers of the registry, looks    *)
(* the prices up once, fans the /status probes out over a pool of          *)
(* `concurrency` workers that share the cursor i and the array results,    *)
(* and assembles the snapshot when every worker has returned.              *)
(*                                                                         *)
(* JavaScript runs one task at a time: a step of the model is the code     *)
(* that runs between two suspension points (await fetch, await res.json).  *)
(* The workers are identical closures, so the pool is a bag of their       *)
(* continuations (the locals each holds at its await).                     *)
(*                                                                         *)
(* JavaScript values whose type the code tests are tagged records:         *)
(*   [num |-> n]  [str |-> s]  [arr |-> <<..>>]  [obj |-> [k |-> v, ..]]   *)
(*   Null, Undefined.  Numbers are the integers (exact in a double).       *)
(* Array indices and the cursor are 0-based as in the source; slot idx of  *)
(* results is element idx + 1 of the sequence.                             *)
(***************************************************************************)
EXTENDS Integers, Sequences, FiniteSets, Bags, TLC

VARIABLES
    networks,                  \* Network.ALL, the registry (read-only)
    apiKey,                    \* ctx.env.COINGECKO_API_KEY
    priceFeed,                 \* what the price feed answers (upstream)
    relayer,                   \* what each network's /status answers (upstream)
    pc,                        \* position of onRequest
    coinGeckoIdByNetworkName,  \* network name -> price-feed id or Undefined
    idsNeeded,                 \* Set<string>, in insertion order
    pricesUsd,                 \* id -> number
    pricingError,              \* Str(message) or Null
    i,                         \* the shared cursor
    results,                   \* the result array
    spawned,                   \* worker() calls made so far
    workers,                   \* bag of suspended worker continuations
    exited,                    \* workers whose promise has resolved
    probes,                    \* per index: fetch calls issued (transport log)
    parsed,                    \* per index: res.json() calls (transport log)
    priceCalls,                \* fetch calls to the price feed (transport log)
    snapshot,                  \* the response body, or Null
    data,                      \* App: the snapshot last loaded, or Null
    loading,                   \* App: a load is under way
    error,                     \* App: Str(message) of the last load, or Null
    query,                     \* App: the text of the search box
    filter,                    \* App: "all", "zero" or "lowEth"
    load,                      \* App: position of load()
    reply,                     \* what load()'s fetch of /api/status meets
    loads                      \* load() calls so far

vars == <<networks, apiKey, priceFeed, relayer, pc, coinGeckoIdByNetworkName,
          idsNeeded, pricesUsd, pricingError, i, results, spawned, workers,
          exited, probes, parsed, priceCalls, snapshot, data, loading, error,
          query, filter, load, reply, loads>>

upstream == <<networks, apiKey, priceFeed, relayer>>

\* The state of the dashboard, web/src/App.tsx.
dashboard == <<data, loading, error, query, filter, load, reply, loads>>

-----------------------------------------------------------------------------
(* JavaScript values *)

Null == [null |-> TRUE]
Undefined == [undefined |-> TRUE]
Num(n) == [num |-> n]
Str(s) == [str |-> s]
Arr(a) == [arr |-> a]
Obj(o) == [obj |-> o]
EmptyObject == Obj(<<>>)

\* typeof v === 'number'
IsNumber(v) == "num" \in DOMAIN v
\* Array.isArray(v)
IsArray(v) == "arr" \in DOMAIN v
\* typeof v === 'object' && v  (arrays aside)
IsObject(v) == "obj" \in DOMAIN v
\* v == null
IsNullish(v) == v = Null \/ v = Undefined
\* v?.key
Get(v, key) ==
    IF IsObject(v) /\ key \in DOMAIN v.obj THEN v.obj[key] ELSE Undefined

RECURSIVE SeqSum(_)
SeqSum(s) == IF s = <<>> THEN 0 ELSE Head(s) + SeqSum(Tail(s))

RECURSIVE SeqMin(_)
SeqMin(s) ==
    IF Len(s) = 1 THEN s[1]
    ELSE LET m == SeqMin(Tail(s)) IN IF s[1] <= m THEN s[1] ELSE m

Range(s) == {s[k] : k \in DOMAIN s}

-----------------------------------------------------------------------------
(* Network Identity Resolver *)

COINGECKO_ID_BY_SYMBOL(sym) ==
    CASE sym = "ETH"   -> Str("ethereum")
      [] sym = "sETH"  -> Str("ethereum")
      [] sym = "OP"    -> Str("optimism")
      [] sym = "POL"   -> Str("polygon-ecosystem-token")
      [] sym = "MATIC" -> Str("matic-network")
      [] sym = "BNB"   -> Str("binancecoin")
      [] sym = "AVAX"  -> Str("avalanche-2")
      [] sym = "XDAI"  -> Str("gnosis")
      [] sym = "GLMR"  -> Str("moonbeam")
      [] sym = "MOVR"  -> Str("moonriver")
      [] sym = "APE"   -> Str("apecoin")
      [] sym = "XAI"   -> Str("xai")
      [] sym = "IMX"   -> Str("immutable-x")
      [] sym = "XTZ"   -> Str("tezos")
      [] sym = "OAS"   -> Str("oasys")
      [] sym = "USDC"  -> Str("usd-coin")
      [] OTHER         -> Undefined

\* n.nativeCurrency?.symbol, n.nativeCurrency?.name
CurrencySymbol(n) == Get(n.nativeCurrency, "symbol")
CurrencyName(n) == Get(n.nativeCurrency, "name")

\* const id = sym ? COINGECKO_ID_BY_SYMBOL[sym] : undefined
ResolveId(n) ==
    LET sym == CurrencySymbol(n)
    IN  IF "str" \in DOMAIN sym /\ sym.str # ""
        THEN COINGECKO_ID_BY_SYMBOL(sym.str)
        ELSE Undefined

\* The loop over the registry: the map by network name.  A later network of
\* the same name overwrites an earlier one.
IdByName(ns) ==
    [name \in {ns[k].name : k \in DOMAIN ns} |->
        LET last == CHOOSE k \in DOMAIN ns :
                        /\ ns[k].name = name
                        /\ \A j \in DOMAIN ns : j > k => ns[j].name # name
        IN  ResolveId(ns[last])]

\* The loop over the registry: the Set of ids, in insertion order (an id is
\* inserted by the first network that resolves to it).
IdsNeeded(ns) ==
    LET inserts == {k \in DOMAIN ns :
                       /\ ResolveId(ns[k]) # Undefined
                       /\ \A j \in DOMAIN ns :
                              j < k => ResolveId(ns[j]) # ResolveId(ns[k])}
    IN  [r \in 1..Cardinality(inserts) |->
            LET k == CHOOSE k \in inserts :
                         Cardinality({j \in inserts : j <= k}) = r
            IN  ResolveId(ns[k]).str]

-----------------------------------------------------------------------------
(* Price Lookup *)

\* res.ok
ResponseOk(status) == status >= 200 /\ status <= 299

\* Object.entries(json) throws a TypeError on null; res.json() has parsed.
EntriesThrow(json) == IsNullish(json)
EntriesError == "Cannot convert undefined or null to object"

\* Object.entries(json): the own properties of an object, the elements of an
\* array under their indices, nothing for a number; the entries of a string
\* are its characters, none of which has a usd, and are left out.
Entries(json) ==
    CASE IsObject(json) -> json.obj
      [] IsArray(json) ->
             [id \in {ToString(k - 1) : k \in DOMAIN json.arr} |->
                 json.arr[CHOOSE k \in DOMAIN json.arr : ToString(k - 1) = id]]
      [] OTHER -> <<>>

PricedIdsRequested(json) ==
    {id \in DOMAIN Entries(json) :
        IsNumber(Get(Entries(json)[id], "usd")) /\ id \in Range(idsNeeded)}

\* The loop over Object.entries(json): the ids whose entry has a numeric usd.
PricedIds(json) ==
    {id \in DOMAIN Entries(json) : IsNumber(Get(Entries(json)[id], "usd"))}

PricesOf(json) == [id \in PricedIds(json) |-> Entries(json)[id].obj.usd.num]

\* `CoinGecko HTTP ${res.status}`
PriceHttpError(status) == "CoinGecko HTTP " \o ToString(status)

-----------------------------------------------------------------------------
(* Per-Endpoint Enrichment *)

NaN == [nan |-> TRUE]

\* ToNumber of the relational comparison, for the values a balance takes in
\* this model: a number, a string, null.
ToNumber(v) ==
    CASE IsNumber(v) -> v
      [] v = Null -> Num(0)
      [] v = Str("") -> Num(0)
      [] v = Str("0") -> Num(0)
      [] v = Str("1") -> Num(1)
      [] OTHER -> NaN

\* typeof s.etherBalance === 'number' ? s.etherBalance : 0
NumericBalance(s) ==
    LET b == Get(s, "etherBalance") IN IF IsNumber(b) THEN b.num ELSE 0

BalanceLtZero(s) ==
    LET b == Get(s, "etherBalance")
        c == ToNumber(IF IsNullish(b) THEN Num(0) ELSE b)
    IN  IsNumber(c) /\ c.num < 0

\* (s.etherBalance ?? 0) <= 0
BalanceLeqZero(s) ==
    LET b == Get(s, "etherBalance")
        c == ToNumber(IF IsNullish(b) THEN Num(0) ELSE b)
    IN  IsNumber(c) /\ c.num <= 0

TimesPriceOrZero(x, usdPrice) ==
    IF IsNumber(usdPrice) THEN Num(x * usdPrice.num) ELSE Num(0)

\* typeof usdPrice === 'number' ? x * usdPrice : null
TimesPrice(x, usdPrice) ==
    IF IsNumber(usdPrice) THEN Num(x * usdPrice.num) ELSE Null

EnrichSenderPriceOnly(s, usdPrice) ==
    LET own == IF IsObject(s) THEN DOMAIN s.obj ELSE {}
    IN  Obj([k \in own \cup {"usdValue"} |->
                IF k = "usdValue" THEN usdPrice ELSE s.obj[k]])

\* { ...s, usdValue: ... }
EnrichSender(s, usdPrice) ==
    LET own == IF IsObject(s) THEN DOMAIN s.obj ELSE {}
        usdValue == TimesPrice(NumericBalance(s), usdPrice)
    IN  Obj([k \in own \cup {"usdValue"} |->
                IF k = "usdValue" THEN usdValue ELSE s.obj[k]])

SendersOfWrapped(jsonRaw) ==
    LET s == Get(jsonRaw, "senders")
    IN  IF IsArray(s) THEN s.arr ELSE IF s = Undefined THEN <<>> ELSE <<s>>

\* Array.isArray(jsonRaw?.senders) ? jsonRaw.senders : []
SendersOf(jsonRaw) ==
    LET s == Get(jsonRaw, "senders") IN IF IsArray(s) THEN s.arr ELSE <<>>

EnrichedSenders(jsonRaw, usdPrice) ==
    LET senders == SendersOf(jsonRaw)
    IN  [k \in DOMAIN senders |-> EnrichSender(senders[k], usdPrice)]

Balances(enriched) == [k \in DOMAIN enriched |-> NumericBalance(enriched[k])]

TotalNativeNoInitial(enriched) ==
    IF Len(enriched) = 0 THEN 0 ELSE SeqSum(Tail(Balances(enriched)))

TotalNative(enriched) == SeqSum(Balances(enriched))

MinNativeOrZero(enriched) ==
    IF Len(enriched) # 0 THEN Num(SeqMin(Balances(enriched))) ELSE Num(0)

\* enrichedSenders.length ? Math.min(...) : null
MinNative(enriched) ==
    IF Len(enriched) # 0 THEN Num(SeqMin(Balances(enriched))) ELSE Null

\* typeof usdPrice === 'number' && typeof minNative === 'number' ? ... : null
MinUsd(minNative, usdPrice) ==
    IF IsNumber(minNative) THEN TimesPrice(minNative.num, usdPrice) ELSE Null

ZeroCount(enriched) ==
    Cardinality({k \in DOMAIN enriched : BalanceLeqZero(enriched[k])})

SummaryWithLowEth(enriched, usdPrice) ==
    LET minUsd == MinUsd(MinNative(enriched), usdPrice)
    IN  [senderCount |-> Len(enriched),
         zeroCount   |-> ZeroCount(enriched),
         totalNative |-> TotalNative(enriched),
         totalUsd    |-> TimesPrice(TotalNative(enriched), usdPrice),
         minNative   |-> MinNative(enriched),
         minUsd      |-> minUsd,
         lowEth      |-> IsNumber(minUsd) /\ minUsd.num < 50]

Summary(enriched, usdPrice) ==
    [senderCount |-> Len(enriched),
     zeroCount   |-> ZeroCount(enriched),
     totalNative |-> TotalNative(enriched),
     totalUsd    |-> TimesPrice(TotalNative(enriched), usdPrice),
     minNative   |-> MinNative(enriched),
     minUsd      |-> MinUsd(MinNative(enriched), usdPrice)]

DataSendersOnly(jsonRaw, enriched) == Obj([senders |-> Arr(enriched)])

\* { ...(typeof jsonRaw === 'object' && jsonRaw ? jsonRaw : {}), senders }
Data(jsonRaw, enriched) ==
    LET own == IF IsObject(jsonRaw) THEN DOMAIN jsonRaw.obj ELSE {}
    IN  Obj([k \in own \cup {"senders"} |->
                IF k = "senders" THEN Arr(enriched) ELSE jsonRaw.obj[k]])

-----------------------------------------------------------------------------
(* One probe: the worker's locals and the three outcomes *)

\* `https://${n.name}-relayer.sequence.app/status`
Url(n) == "https://" \o n.name \o "-relayer.sequence.app/status"

UsdPriceOrZero(coinGeckoId) ==
    IF coinGeckoId # Undefined /\ coinGeckoId.str \in DOMAIN pricesUsd
    THEN Num(pricesUsd[coinGeckoId.str])
    ELSE Num(0)

\* coinGeckoId ? pricesUsd[coinGeckoId] ?? null : null
UsdPrice(coinGeckoId) ==
    IF coinGeckoId # Undefined /\ coinGeckoId.str \in DOMAIN pricesUsd
    THEN Num(pricesUsd[coinGeckoId.str])
    ELSE Null

NativeToken(n, coinGeckoId, usdPrice) ==
    [symbol      |-> CurrencySymbol(n),
     name        |-> CurrencyName(n),
     coinGeckoId |-> coinGeckoId,
     usdPrice    |-> usdPrice]

HttpErrorText(status) == "HTTP error"

\* `HTTP ${res.status}`
HttpError(status) == "HTTP " \o ToString(status)

\* The outcome of a non-2xx response.
HttpFailure(n, w, status) ==
    [network     |-> n,
     url         |-> Url(n),
     ok          |-> FALSE,
     status      |-> status,
     error       |-> HttpError(status),
     nativeToken |-> NativeToken(n, w.coinGeckoId, w.usdPrice)]

\* The status the catch block records.
CaughtStatus(w) == 0

\* The outcome of the catch block: e?.message ?? String(e).
CaughtFailure(n, w, message) ==
    [network     |-> n,
     url         |-> Url(n),
     ok          |-> FALSE,
     status      |-> CaughtStatus(w),
     error       |-> message,
     nativeToken |-> NativeToken(n, w.coinGeckoId, w.usdPrice)]

SuccessNoSummary(n, w, jsonRaw) ==
    [network     |-> n,
     url         |-> Url(n),
     ok          |-> TRUE,
     status      |-> w.res,
     nativeToken |-> NativeToken(n, w.coinGeckoId, w.usdPrice),
     data        |-> jsonRaw]

\* The outcome of a 2xx response whose body parsed to jsonRaw.
Success(n, w, jsonRaw) ==
    LET enriched == EnrichedSenders(jsonRaw, w.usdPrice)
    IN  [network     |-> n,
         url         |-> Url(n),
         ok          |-> TRUE,
         status      |-> w.res,
         nativeToken |-> NativeToken(n, w.coinGeckoId, w.usdPrice),
         data        |-> Data(jsonRaw, enriched),
         summary     |-> Summary(enriched, w.usdPrice)]

\* An array element never assigned.
Hole == [hole |-> TRUE]

SetSlotPush(arr, idx, v) == Append(arr, v)

SetSlotDense(arr, idx, v) ==
    IF idx + 1 <= Len(arr) THEN [arr EXCEPT ![idx + 1] = v] ELSE Append(arr, v)

\* results[idx] = v on a JavaScript array: an index past the end extends it.
SetSlot(arr, idx, v) ==
    IF idx + 1 <= Len(arr)
    THEN [arr EXCEPT ![idx + 1] = v]
    ELSE arr \o [k \in 1..(idx - Len(arr)) |-> Hole] \o <<v>>

-----------------------------------------------------------------------------
(* Upstream: the registry and what the remote services answer *)

concurrencyPlusOne == 12 + 1

concurrency == 12

\* Networks of the small registries, whose upstream answers vary freely.
MaxNetworks == 2
\* Networks beyond the pool size in the large registries.
MaxExtra == 2

NetworkName(k) == "net" \o ToString(k)

Currency(symbol, name) == Obj([symbol |-> Str(symbol), name |-> Str(name)])

Ether == Currency("ETH", "Ether")
Pol == Currency("POL", "POL")
Unlisted == Currency("XYZ", "Xyz")

Currencies == {Ether, Unlisted, Undefined}

Network(k, cur) == [name |-> NetworkName(k), nativeCurrency |-> cur]

Sender(index, balance) ==
    Obj([index |-> Num(index), address |-> Str("0xa" \o ToString(index)),
         etherBalance |-> balance])

PayloadFunded ==
    Obj([ver |-> Str("v1"), senders |-> Arr(<<Sender(0, Num(5)), Sender(1, Num(0))>>)])
PayloadNoSenders == Obj([ver |-> Str("v1")])

Fault(message) == [fault |-> message]
Http(status, body) == [status |-> status, body |-> body]
Json(v) == [json |-> v]
Text(t) == [text |-> t]

\* A request whose promise never settles (a hung endpoint).
Pending == [pending |-> TRUE]

IsFault(r) == "fault" \in DOMAIN r
IsResponse(r) == "status" \in DOMAIN r
Parses(body) == "json" \in DOMAIN body

\* The message of the SyntaxError res.json() throws on a body that is no JSON.
ParseError == "Unexpected token < in JSON at position 0"

RelayerResponses ==
    { Fault("fetch failed"),
      Http(503, Text("<html>unavailable</html>")),
      Http(200, Text("<html>maintenance</html>")),
      Http(200, Json(PayloadFunded)),
      Http(200, Json(PayloadNoSenders)) }

Priced == Http(200, Json(Obj([ethereum |-> Obj([usd |-> Num(2000)])])))

\* The credential and what the price feed answers to a request made with it.
PricingScenarios ==
    { <<Undefined, Fault("fetch failed")>>,
      <<Undefined, Http(429, Text("rate limited"))>>,
      <<Str("cg-key"), Http(200, Text("<html>error</html>"))>>,
      <<Str("cg-key"), Priced>>,
      <<Undefined, Priced>>,
      <<Str("cg-key"), Http(200, Json(Obj([ethereum |-> EmptyObject])))>> }

\* The large registries: a fixed list, a fixed answer per network.
RegistryCurrency(k) ==
    CASE k % 4 = 0 -> Ether
      [] k % 4 = 1 -> Pol
      [] k % 4 = 2 -> Unlisted
      [] OTHER -> Undefined

RegistryResponse(idx) ==
    CASE idx % 6 = 0 -> Http(200, Json(PayloadFunded))
      [] idx = 7 -> Http(200, Text("<html>maintenance</html>"))
      [] idx % 4 = 2 -> Http(404, Text("not found"))
      [] idx % 2 = 0 -> Http(503, Text("<html>unavailable</html>"))
      [] OTHER -> Fault("fetch failed")

\* useState(null), useState(false), useState(null), useState(''),
\* useState('all'); load() has not been called.
InitDashboard ==
    /\ data = [null |-> TRUE]
    /\ loading = FALSE
    /\ error = [null |-> TRUE]
    /\ query = ""
    /\ filter = "all"
    /\ load = "idle"
    /\ reply = [null |-> TRUE]
    /\ loads = 0

\* A request has reached onRequest; the dashboard is not in use.
InitRequest ==
    /\ InitDashboard
    /\ pc = "resolve"
    /\ coinGeckoIdByNetworkName = <<>>
    /\ idsNeeded = <<>>
    /\ pricesUsd = <<>>
    /\ pricingError = Null
    /\ i = 0
    /\ results = <<>>
    /\ spawned = 0
    /\ workers = EmptyBag
    /\ exited = 0
    /\ probes = [idx \in 0..(Len(networks) - 1) |-> 0]
    /\ parsed = [idx \in 0..(Len(networks) - 1) |-> 0]
    /\ priceCalls = 0
    /\ snapshot = Null

InitSmall ==
    \E count \in 0..MaxNetworks :
        /\ \E cur \in [1..count -> Currencies] :
               networks = [k \in 1..count |-> Network(k, cur[k])]
        /\ relayer \in [0..(count - 1) -> RelayerResponses]
        /\ \E p \in PricingScenarios : apiKey = p[1] /\ priceFeed = p[2]

InitLarge ==
    \E count \in concurrency..(concurrency + MaxExtra) :
        /\ networks = [k \in 1..count |-> Network(k, RegistryCurrency(k))]
        /\ relayer = [idx \in 0..(count - 1) |-> RegistryResponse(idx)]
        /\ apiKey = Undefined
        /\ priceFeed = Priced

Init == (InitSmall \/ InitLarge) /\ InitRequest

-----------------------------------------------------------------------------
(* onRequest *)

\* Lines 57-71: resolve the ids, then call fetchUsdPrices, which returns {}
\* without a request when there is no id to price.
Resolve ==
    /\ pc = "resolve"
    /\ coinGeckoIdByNetworkName' = IdByName(networks)
    /\ idsNeeded' = IdsNeeded(networks)
    /\ IF Len(idsNeeded') = 0
       THEN pc' = "fanout" /\ UNCHANGED priceCalls
       ELSE pc' = "priceFetch" /\ priceCalls' = priceCalls + 1
    /\ pricesUsd' = <<>>
    /\ UNCHANGED <<upstream, dashboard, pricingError, i, results, spawned, workers, exited,
                   probes, parsed, snapshot>>

\* catch (e): pricingError = e?.message ?? String(e); pricesUsd = {}
CatchPricing(message) ==
    /\ pricingError' = Str(message)
    /\ pricesUsd' = <<>>
    /\ pc' = "fanout"
    /\ UNCHANGED <<upstream, dashboard, coinGeckoIdByNetworkName, idsNeeded, i, results,
                   spawned, workers, exited, probes, parsed, priceCalls, snapshot>>

\* The fetch of fetchUsdPrices rejects.
PriceFault ==
    /\ pc = "priceFetch"
    /\ IsFault(priceFeed)
    /\ CatchPricing(priceFeed.fault)

\* if (!res.ok) throw new Error(`CoinGecko HTTP ${res.status}`)
PriceHttpFailure ==
    /\ pc = "priceFetch"
    /\ ~IsFault(priceFeed)
    /\ ~ResponseOk(priceFeed.status)
    /\ CatchPricing(PriceHttpError(priceFeed.status))

PriceOkEarly ==
    /\ pc = "priceFetch"
    /\ ~IsFault(priceFeed)
    /\ ResponseOk(priceFeed.status)
    /\ pc' = "fanout"
    /\ UNCHANGED <<upstream, dashboard, coinGeckoIdByNetworkName, idsNeeded, pricesUsd,
                   pricingError, i, results, spawned, workers, exited, probes,
                   parsed, priceCalls, snapshot>>

\* A 2xx response: await res.json()
PriceOk ==
    /\ pc = "priceFetch"
    /\ ~IsFault(priceFeed)
    /\ ResponseOk(priceFeed.status)
    /\ pc' = "priceJson"
    /\ UNCHANGED <<upstream, dashboard, coinGeckoIdByNetworkName, idsNeeded, pricesUsd,
                   pricingError, i, results, spawned, workers, exited, probes,
                   parsed, priceCalls, snapshot>>

\* res.json() resolves and Object.entries(json) does not throw.
Priceable(body) == Parses(body) /\ ~EntriesThrow(body.json)

\* res.json() rejects (the body is no JSON) or Object.entries(json) throws.
PriceJsonThrows ==
    /\ pc = "priceJson"
    /\ ~Priceable(priceFeed.body)
    /\ CatchPricing(IF Parses(priceFeed.body) THEN EntriesError ELSE ParseError)

\* Lines 45-50 and 71.
PriceJson ==
    /\ pc = "priceJson"
    /\ Priceable(priceFeed.body)
    /\ pricesUsd' = PricesOf(priceFeed.body.json)
    /\ pc' = "fanout"
    /\ UNCHANGED <<upstream, dashboard, coinGeckoIdByNetworkName, idsNeeded, pricingError,
                   i, results, spawned, workers, exited, probes, parsed,
                   priceCalls, snapshot>>

NextCursorSkips(cursor) == cursor + 2

NextCursorStays(cursor) == cursor

\* const idx = i++
NextCursor(cursor) == cursor + 1

\* The locals of a worker suspended at await fetch(url) for index idx.
Probe(idx) ==
    LET coinGeckoId == coinGeckoIdByNetworkName[networks[idx + 1].name]
    IN  [pc |-> "fetch", idx |-> idx, coinGeckoId |-> coinGeckoId,
         usdPrice |-> UsdPrice(coinGeckoId)]

\* The worker returns: its promise resolves.
Exit(rest) ==
    /\ workers' = rest
    /\ exited' = exited + 1
    /\ UNCHANGED <<i, probes>>

\* while (i < networks.length) { const idx = i++; ... await fetch(url) }:
\* the worker claims the next index and suspends at its fetch, or returns.
\* rest is the pool without this worker.
Loop(rest) ==
    IF i < Len(networks)
    THEN /\ workers' = rest (+) SetToBag({Probe(i)})
         /\ i' = NextCursor(i)
         /\ probes' = [probes EXCEPT ![i] = @ + 1]
         /\ UNCHANGED exited
    ELSE Exit(rest)

AfterFailureReturn(rest) == Exit(rest)

AfterFailureThrows(rest) ==
    /\ workers' = rest
    /\ UNCHANGED <<i, probes, exited>>

\* After the failure outcome is stored: `continue`, or the end of the catch
\* block, both back to the loop's test.
AfterFailure(rest) == Loop(rest)

\* Array.from({ length: concurrency }, () => worker()): each call runs the
\* worker to its first await before the next call is made.
SpawnWorker ==
    /\ pc = "fanout"
    /\ spawned < concurrency
    /\ spawned' = spawned + 1
    /\ Loop(workers)
    /\ UNCHANGED <<upstream, dashboard, pc, coinGeckoIdByNetworkName, idsNeeded, pricesUsd,
                   pricingError, results, parsed, priceCalls, snapshot>>

Without(w) == workers (-) SetToBag({w})

\* A continuation runs once Promise.all has been awaited (the event loop is
\* reached only then) and its own await has settled.
Suspended(w, at) ==
    /\ spawned = concurrency
    /\ BagIn(w, workers)
    /\ w.pc = at

Record(w, outcome) ==
    /\ results' = SetSlot(results, w.idx, outcome)
    /\ UNCHANGED <<upstream, dashboard, pc, coinGeckoIdByNetworkName, idsNeeded, pricesUsd,
                   pricingError, spawned, parsed, priceCalls, snapshot>>

\* await fetch(url) rejects: the catch block.
ProbeFault(w) ==
    /\ Suspended(w, "fetch")
    /\ IsFault(relayer[w.idx])
    /\ Record(w, CaughtFailure(networks[w.idx + 1], w, relayer[w.idx].fault))
    /\ AfterFailure(Without(w))

\* if (!res.ok) { results[idx] = ...; continue }
ProbeHttpFailure(w) ==
    /\ Suspended(w, "fetch")
    /\ IsResponse(relayer[w.idx])
    /\ ~ResponseOk(relayer[w.idx].status)
    /\ Record(w, HttpFailure(networks[w.idx + 1], w, relayer[w.idx].status))
    /\ AfterFailure(Without(w))

\* A 2xx response: await res.json()
ProbeOk(w) ==
    /\ Suspended(w, "fetch")
    /\ IsResponse(relayer[w.idx])
    /\ ResponseOk(relayer[w.idx].status)
    /\ workers' = Without(w) (+)
           SetToBag({[pc |-> "json", idx |-> w.idx, coinGeckoId |-> w.coinGeckoId,
                      usdPrice |-> w.usdPrice, res |-> relayer[w.idx].status]})
    /\ parsed' = [parsed EXCEPT ![w.idx] = @ + 1]
    /\ UNCHANGED <<upstream, dashboard, pc, coinGeckoIdByNetworkName, idsNeeded, pricesUsd,
                   pricingError, i, results, spawned, exited, probes, priceCalls,
                   snapshot>>

\* res.json() rejects: the catch block.
ProbeJsonThrows(w) ==
    /\ Suspended(w, "json")
    /\ ~Parses(relayer[w.idx].body)
    /\ Record(w, CaughtFailure(networks[w.idx + 1], w, ParseError))
    /\ AfterFailure(Without(w))

\* Lines 116-163, then the loop's test.
ProbeJson(w) ==
    /\ Suspended(w, "json")
    /\ Parses(relayer[w.idx].body)
    /\ Record(w, Success(networks[w.idx + 1], w, relayer[w.idx].body.json))
    /\ Loop(Without(w))

AnyWorkerDone == spawned = concurrency /\ exited >= 1

\* Promise.all over the workers' promises has resolved.
AllWorkersDone == spawned = concurrency /\ exited = concurrency

\* new Date().toISOString()
Timestamps == {"2026-01-01T00:00:00.000Z", "2026-01-01T00:00:01.000Z"}

Snapshot(now) ==
    [generatedAt |-> now,
     pricing |-> [apiKeyPresent |-> apiKey # Undefined,
                  idsRequested  |-> idsNeeded,
                  idsPriced     |-> DOMAIN pricesUsd,
                  error         |-> pricingError],
     count   |-> Len(results),
     results |-> results]

\* Lines 182-203.
Assemble ==
    /\ pc = "fanout"
    /\ AllWorkersDone
    /\ \E now \in Timestamps : snapshot' = Snapshot(now)
    /\ pc' = "done"
    /\ UNCHANGED <<upstream, dashboard, coinGeckoIdByNetworkName, idsNeeded, pricesUsd,
                   pricingError, i, results, spawned, workers, exited, probes,
                   parsed, priceCalls>>

Next ==
    \/ Resolve
    \/ PriceFault
    \/ PriceHttpFailure
    \/ PriceOk
    \/ PriceJsonThrows
    \/ PriceJson
    \/ SpawnWorker
    \/ \E w \in BagToSet(workers) : ProbeFault(w)
    \/ \E w \in BagToSet(workers) : ProbeHttpFailure(w)
    \/ \E w \in BagToSet(workers) : ProbeOk(w)
    \/ \E w \in BagToSet(workers) : ProbeJsonThrows(w)
    \/ \E w \in BagToSet(workers) : ProbeJson(w)
    \/ Assemble

Spec == Init /\ [][Next]_vars

-----------------------------------------------------------------------------
(* The request under fair scheduling, with endpoints that may hang *)

\* Networks beyond the pool size in the registries of FairSpec.
MaxFairExtra == 1

\* The sets of hung endpoints tried on a large registry.
HangSets ==
    { {}, {5, concurrency}, 0..(concurrency - 2), 0..(concurrency - 1) }

InitFairSmall ==
    \E count \in 0..1 :
        /\ \E cur \in [1..count -> Currencies] :
               networks = [k \in 1..count |-> Network(k, cur[k])]
        /\ relayer \in [0..(count - 1) -> RelayerResponses \cup {Pending}]
        /\ \E p \in PricingScenarios : apiKey = p[1] /\ priceFeed = p[2]

InitFairLarge ==
    \E count \in (concurrency + 1)..(concurrency + MaxFairExtra) :
        /\ networks = [k \in 1..count |-> Network(k, RegistryCurrency(k))]
        /\ \E hung \in HangSets :
               relayer = [idx \in 0..(count - 1) |->
                             IF idx \in hung THEN Pending
                             ELSE RegistryResponse(idx)]
        /\ apiKey = Undefined
        /\ priceFeed = Priced

InitFair == (InitFairSmall \/ InitFairLarge) /\ InitRequest

\* The event loop runs a continuation whose await has settled: while a step
\* of the request is possible, one is taken.
FairSpec == InitFair /\ [][Next]_vars /\ WF_vars(Next)

-----------------------------------------------------------------------------
(* One network, whose /status payload varies *)

\* Senders of a payload's list.
MaxSenders == 2

\* A sender's etherBalance: a number, null, a string, or no such field; or
\* a list element that is no object.
BalanceCases ==
    {Num(0 - 1), Num(0), Num(3), Null, Str("n/a"), Str("absent"), Str("no object")}

SenderCase(index, case) ==
    CASE case = Str("absent") ->
             Obj([index |-> Num(index), address |-> Str("0xa" \o ToString(index))])
      [] case = Str("no object") -> Null
      [] OTHER -> Sender(index, case)

SenderLists ==
    UNION {{[k \in 1..len |-> SenderCase(k - 1, cases[k])] :
               cases \in [1..len -> BalanceCases]} : len \in 0..MaxSenders}

\* A payload with more fields, whose second sender carries a usdValue of its
\* own.
PayloadQuoted ==
    Obj([ver |-> Str("v1"), healthOK |-> Str("true"), uptime |-> Num(86400),
         senders |-> Arr(<<Sender(0, Num(3)),
                           Obj([index |-> Num(1), address |-> Str("0xa1"),
                                etherBalance |-> Num(0), active |-> Str("false"),
                                usdValue |-> Str("stale")])>>)])

Payloads ==
    {Obj([ver |-> Str("v1"), senders |-> Arr(list)]) : list \in SenderLists}
    \cup { PayloadNoSenders, PayloadQuoted,
           Obj([ver |-> Str("v1"), senders |-> Str("none")]),
           Obj([ver |-> Str("v1"), senders |-> Null]),
           Obj([ver |-> Str("v1"), senders |-> Obj([count |-> Num(2)])]),
           Null }

InitEnrich ==
    /\ \E cur \in {Ether, Unlisted} : networks = <<Network(1, cur)>>
    /\ \E r \in RelayerResponses \cup {Http(200, Json(p)) : p \in Payloads} :
           relayer = [idx \in {0} |-> r]
    /\ \E p \in PricingScenarios : apiKey = p[1] /\ priceFeed = p[2]
    /\ InitRequest

SpecEnrich == InitEnrich /\ [][Next]_vars

-----------------------------------------------------------------------------
(* Small registries, with a price feed whose 2xx body varies *)

\* Identifiers a price-feed body may carry, of FeedIds.
MaxFeedIds == 2

\* The second is an identifier no network resolves to.
FeedIds == <<"ethereum", "bitcoin", "polygon-ecosystem-token">>

\* The entry of an identifier: a quote, a quote that is no number, no quote,
\* an entry that is no object.
QuoteCases ==
    { Obj([usd |-> Num(2000)]), Obj([usd |-> Str("2000")]), Obj([usd |-> Null]),
      Obj([eur |-> Num(1800)]), Null }

PriceBodies ==
    {Obj(entries) :
        entries \in UNION {[ids -> QuoteCases] :
                              ids \in SUBSET {FeedIds[k] : k \in 1..MaxFeedIds}}}
    \cup {Null, Num(0), Arr(<<Obj([usd |-> Num(1)])>>)}

InitPricing ==
    /\ \/ \E cur \in {Ether, Unlisted} : networks = <<Network(1, cur)>>
       \/ networks = <<Network(1, Pol), Network(2, Ether)>>
    /\ \E r \in RelayerResponses :
           relayer = [idx \in 0..(Len(networks) - 1) |->
                         IF idx = 0 THEN r ELSE Http(200, Json(PayloadFunded))]
    /\ \E p \in PricingScenarios \cup
                 {<<Undefined, Http(200, Json(body))>> : body \in PriceBodies} :
           apiKey = p[1] /\ priceFeed = p[2]
    /\ InitRequest

SpecPricing == InitPricing /\ [][Next]_vars

-----------------------------------------------------------------------------
(* The dashboard, web/src/App.tsx, in front of the aggregator *)

\* load() calls in a session of the dashboard.
MaxLoads == 2

\* JSON.stringify followed by res.json(): a property whose value is undefined
\* is dropped, an array element never assigned becomes null.
DropUndefined(rec) ==
    [f \in {f \in DOMAIN rec : rec[f] # Undefined} |-> rec[f]]

JsonNetwork(n) ==
    IF n.nativeCurrency = Undefined
    THEN [f \in DOMAIN n \ {"nativeCurrency"} |-> n[f]]
    ELSE n

JsonOutcome(o) ==
    IF o = Hole THEN Null
    ELSE [f \in DOMAIN o |->
             CASE f = "network" -> JsonNetwork(o.network)
               [] f = "nativeToken" -> DropUndefined(o.nativeToken)
               [] OTHER -> o[f]]

Serialize(body) ==
    [body EXCEPT !.results = [k \in DOMAIN body.results |-> JsonOutcome(body.results[k])]]

\* The fetch of /api/status reaches the function, which runs onRequest.
Served == [served |-> TRUE]

\* What the fetch may meet instead: no connection, an error page of the
\* platform, a 200 page that is no JSON.
Replies ==
    { Served,
      Fault("Failed to fetch"),
      Http(500, Text("Internal Server Error")),
      Http(200, Text("<!doctype html>")) }

\* The response load() receives; the function's is the snapshot.
Response ==
    IF reply = Served
    THEN Http(200, Json(Serialize(snapshot)))
    ELSE reply

\* A network of the dashboard's registry: the registry entry has a type.
TypedNetwork(k, cur, type) ==
    [name |-> NetworkName(k), nativeCurrency |-> cur, type |-> type]

\* What the upstream services answer while one request is served.
Scenario(first, second, pricing) ==
    [relayer |-> [idx \in 0..1 |-> IF idx = 0 THEN first ELSE second],
     apiKey |-> pricing[1],
     priceFeed |-> pricing[2]]

Scenarios ==
    { Scenario(Http(200, Json(PayloadFunded)), Http(503, Text("<html>unavailable</html>")),
               <<Undefined, Priced>>),
      Scenario(Fault("fetch failed"), Http(200, Json(PayloadNoSenders)),
               <<Undefined, Fault("fetch failed")>>),
      Scenario(Http(200, Text("<html>maintenance</html>")), Http(200, Json(PayloadFunded)),
               <<Undefined, Http(429, Text("rate limited"))>>),
      Scenario(Http(200, Json(PayloadFunded)), Http(200, Json(PayloadFunded)),
               <<Str("cg-key"), Http(200, Text("<html>error</html>"))>>) }

\* data?.results ?? []
Results == IF data = Null THEN <<>> ELSE data.results

\* query.trim().toLowerCase()
Normalize(q) ==
    CASE q = " NET1 " -> "net1"
      [] q = "Net2" -> "net2"
      [] OTHER -> q

\* Texts typed into the search box: a network's name, as typed, or a text no
\* network has.
Queries == {"", " NET1 ", "Net2", "zz"}

\* hay.includes(q), for a q that is a whole network name or occurs in none.
Matches(r, q) == r.network.name = q

ZeroCountOrDown(r) ==
    IF ~r.ok THEN 1
    ELSE IF "summary" \in DOMAIN r /\ "zeroCount" \in DOMAIN r.summary
         THEN r.summary.zeroCount
         ELSE 0

\* r.summary?.zeroCount ?? 0
ZeroCountOf(r) ==
    IF "summary" \in DOMAIN r /\ "zeroCount" \in DOMAIN r.summary
    THEN r.summary.zeroCount
    ELSE 0

\* !!r.summary?.lowEth
LowEth(r) ==
    /\ "summary" \in DOMAIN r
    /\ "lowEth" \in DOMAIN r.summary
    /\ r.summary.lowEth = TRUE

\* typeof r.summary?.totalUsd === 'number' && r.network.type !== 'testnet'
CountsUsd(r) ==
    /\ "summary" \in DOMAIN r
    /\ IsNumber(r.summary.totalUsd)
    /\ ~("type" \in DOMAIN r.network /\ r.network.type = "testnet")

\* The useMemo `filtered`.
FilteredOf(list, q, f) ==
    LET byQuery == IF Normalize(q) # ""
                   THEN SelectSeq(list, LAMBDA r : Matches(r, Normalize(q)))
                   ELSE list
        byZero == IF f = "zero"
                  THEN SelectSeq(byQuery, LAMBDA r : ZeroCountOf(r) > 0)
                  ELSE byQuery
    IN  IF f = "lowEth" THEN SelectSeq(byZero, LAMBDA r : LowEth(r)) ELSE byZero

Filtered == FilteredOf(Results, query, filter)

\* The useMemo `summary`: the loop skips a result that is not ok after
\* counting it as down.
SummaryOf(list) ==
    LET up == SelectSeq(list, LAMBDA r : r.ok)
        usd == SelectSeq(up, LAMBDA r : CountsUsd(r))
    IN  [chainsUp     |-> Len(up),
         chainsDown   |-> Len(SelectSeq(list, LAMBDA r : ~r.ok)),
         zeroSenders  |-> SeqSum([k \in DOMAIN up |-> ZeroCountOf(up[k])]),
         lowEthChains |-> Len(SelectSeq(up, LAMBDA r : LowEth(r))),
         total        |-> Len(list),
         totalUsd     |-> IF Len(usd) > 0
                          THEN Num(SeqSum([k \in DOMAIN usd |-> usd[k].summary.totalUsd.num]))
                          ELSE Null]

\* The earlier variant's `summary` (lines 549-567), computed over the list
\* the query selects: zero-balance senders are counted from the payload.
EarlierSummaryOf(list) ==
    LET up == SelectSeq(list, LAMBDA r : r.ok)
        senders(r) == IF "data" \in DOMAIN r THEN SendersOf(r.data) ELSE <<>>
    IN  [chainsUp    |-> Len(up),
         chainsDown  |-> Len(SelectSeq(list, LAMBDA r : ~r.ok)),
         zeroSenders |-> SeqSum([k \in DOMAIN up |->
                             Cardinality({j \in DOMAIN senders(up[k]) :
                                             BalanceLeqZero(senders(up[k])[j])})]),
         total       |-> Len(list)]

InitApp ==
    /\ networks = <<TypedNetwork(1, Ether, "mainnet"), TypedNetwork(2, Unlisted, "testnet")>>
    /\ \E scenario \in Scenarios :
           /\ relayer = scenario.relayer
           /\ apiKey = scenario.apiKey
           /\ priceFeed = scenario.priceFeed
    /\ InitDashboard
    /\ pc = "idle"
    /\ coinGeckoIdByNetworkName = <<>>
    /\ idsNeeded = <<>>
    /\ pricesUsd = <<>>
    /\ pricingError = Null
    /\ i = 0
    /\ results = <<>>
    /\ spawned = 0
    /\ workers = EmptyBag
    /\ exited = 0
    /\ probes = [idx \in 0..(Len(networks) - 1) |-> 0]
    /\ parsed = [idx \in 0..(Len(networks) - 1) |-> 0]
    /\ priceCalls = 0
    /\ snapshot = Null

\* The function is invoked: a fresh onRequest, against what the upstream
\* services answer now.
Invoke ==
    /\ \E scenario \in Scenarios :
           /\ relayer' = scenario.relayer
           /\ apiKey' = scenario.apiKey
           /\ priceFeed' = scenario.priceFeed
    /\ pc' = "resolve"
    /\ coinGeckoIdByNetworkName' = <<>>
    /\ idsNeeded' = <<>>
    /\ pricesUsd' = <<>>
    /\ pricingError' = Null
    /\ i' = 0
    /\ results' = <<>>
    /\ spawned' = 0
    /\ workers' = EmptyBag
    /\ exited' = 0
    /\ probes' = [idx \in 0..(Len(networks) - 1) |-> 0]
    /\ parsed' = [idx \in 0..(Len(networks) - 1) |-> 0]
    /\ priceCalls' = 0
    /\ snapshot' = Null
    /\ UNCHANGED networks

\* load(), called by the mount effect or by the Refresh button (disabled
\* while loading): setLoading(true); setError(null); fetch('/api/status').
Load ==
    /\ load = "idle"
    /\ ~loading
    /\ loads < MaxLoads
    /\ loads' = loads + 1
    /\ loading' = TRUE
    /\ error' = Null
    /\ load' = "fetch"
    /\ \E met \in Replies :
           /\ reply' = met
           /\ IF met = Served
              THEN Invoke
              ELSE UNCHANGED <<upstream, pc, coinGeckoIdByNetworkName, idsNeeded,
                               pricesUsd, pricingError, i, results, spawned, workers,
                               exited, probes, parsed, priceCalls, snapshot>>
    /\ UNCHANGED <<data, query, filter>>

request == <<upstream, pc, coinGeckoIdByNetworkName, idsNeeded, pricesUsd,
             pricingError, i, results, spawned, workers, exited, probes, parsed,
             priceCalls, snapshot>>

\* The fetch of load() has settled: the function has answered, or the fetch
\* met something else.
Settled == reply # Served \/ pc = "done"

\* finally { setLoading(false) }
Finally ==
    /\ loading' = FALSE
    /\ load' = "idle"
    /\ UNCHANGED <<query, filter, reply, loads, request>>

CatchClears(message) ==
    /\ error' = Str(message)
    /\ data' = Null
    /\ Finally

\* catch (e) { setError(e?.message ?? String(e)) }
Catch(message) ==
    /\ error' = Str(message)
    /\ UNCHANGED data
    /\ Finally

\* await fetch('/api/status') rejects.
LoadFault ==
    /\ load = "fetch"
    /\ Settled
    /\ IsFault(Response)
    /\ Catch(Response.fault)

\* if (!res.ok) throw new Error(`HTTP ${res.status}`)
LoadHttpFailure ==
    /\ load = "fetch"
    /\ Settled
    /\ IsResponse(Response)
    /\ ~ResponseOk(Response.status)
    /\ Catch(HttpError(Response.status))

\* A 2xx response: await res.json()
LoadOk ==
    /\ load = "fetch"
    /\ Settled
    /\ IsResponse(Response)
    /\ ResponseOk(Response.status)
    /\ load' = "json"
    /\ UNCHANGED <<data, loading, error, query, filter, reply, loads, request>>

\* res.json() rejects.
LoadJsonThrows ==
    /\ load = "json"
    /\ ~Parses(Response.body)
    /\ Catch(ParseError)

\* setData(json)
LoadJson ==
    /\ load = "json"
    /\ Parses(Response.body)
    /\ data' = Response.body.json
    /\ UNCHANGED error
    /\ Finally

\* onChange of the search box: setQuery(e.target.value)
SetQuery ==
    /\ \E q \in Queries \ {query} : query' = q
    /\ UNCHANGED <<data, loading, error, filter, load, reply, loads, request>>

\* The "All networks" pill and the "Reset filter" button: setFilter('all')
FilterAll ==
    /\ filter # "all"
    /\ filter' = "all"
    /\ UNCHANGED <<data, loading, error, query, load, reply, loads, request>>

\* The pills "Zero-balance senders" and "Low ETH chains":
\* setFilter(filter === f ? 'all' : f)
FilterToggle(f) ==
    /\ filter' = IF filter = f THEN "all" ELSE f
    /\ UNCHANGED <<data, loading, error, query, load, reply, loads, request>>

NextApp ==
    \/ Next
    \/ Load
    \/ LoadFault
    \/ LoadHttpFailure
    \/ LoadOk
    \/ LoadJsonThrows
    \/ LoadJson
    \/ SetQuery
    \/ FilterAll
    \/ FilterToggle("zero")
    \/ FilterToggle("lowEth")

SpecApp == InitApp /\ [][NextApp]_vars

-----------------------------------------------------------------------------
(* Properties *)

Indices == 0..(Len(networks) - 1)
Recorded(idx) == idx + 1 <= Len(results) /\ results[idx + 1] # Hole
Outcome(idx) == results[idx + 1]
Replied(idx) == IsResponse(relayer[idx])
Replied2xx(idx) == Replied(idx) /\ ResponseOk(relayer[idx].status)
Failed(idx) == Recorded(idx) /\ ~Outcome(idx).ok
Succeeded(idx) == Recorded(idx) /\ Outcome(idx).ok
InFlight == BagCardinality(workers)
ClaimedBy(idx) == {w \in BagToSet(workers) : w.idx = idx}

\* C1: the snapshot holds exactly one outcome per registry network, in
\* registry order, and its count is the length of the outcome list.
OneOutcomePerNetwork ==
    pc = "done" =>
        /\ Len(snapshot.results) = Len(networks)
        /\ \A k \in 1..Len(snapshot.results) :
               /\ snapshot.results[k] # Hole
               /\ snapshot.results[k].network = networks[k]
        /\ snapshot.count = Len(snapshot.results)

OneOutcomePerNetworkWitness ==
    /\ pc = "done"
    /\ Len(networks) > concurrency
    /\ \E j, k \in Indices : j < k /\ Failed(j) /\ Succeeded(k)

\* C2: every index is claimed by exactly one worker and probed exactly once:
\* the indices below the cursor have one probe each, the others none, no two
\* workers hold the same index, and at the end every network has been probed.
ProbedExactlyOnce ==
    /\ \A idx \in Indices : probes[idx] = (IF idx < i THEN 1 ELSE 0)
    /\ \A idx \in Indices :
           /\ Cardinality(ClaimedBy(idx)) <= 1
           /\ \A w \in ClaimedBy(idx) : CopiesIn(w, workers) = 1
    /\ pc = "done" => \A idx \in Indices : probes[idx] = 1

ProbedExactlyOnceWitness ==
    /\ pc = "done"
    /\ Len(networks) > concurrency
    /\ \A idx \in Indices : probes[idx] = 1

\* C3: at most 12 probes are in flight, however many networks there are.
PoolCap == InFlight <= 12

PoolCapWitness ==
    /\ InFlight = 12
    /\ i = concurrency
    /\ Len(networks) > concurrency

\* C4: the step that records a failure outcome for one network changes no
\* other slot, leaves every other worker's probe in flight, issues no second
\* probe for the failed network, and has the worker claim the next network
\* when one is left.
FailureRecordedFor(idx) ==
    /\ ~Recorded(idx)
    /\ idx + 1 <= Len(results')
    /\ results'[idx + 1] # Hole
    /\ ~results'[idx + 1].ok

FailureIsolated ==
    [][\A idx \in Indices : FailureRecordedFor(idx) =>
          /\ \A j \in Indices \ {idx} :
                 j + 1 <= Len(results) => results'[j + 1] = results[j + 1]
          /\ \A w \in BagToSet(workers) :
                 w.idx # idx => CopiesIn(w, workers') = CopiesIn(w, workers)
          /\ \A w \in BagToSet(workers') : w.idx # idx
          /\ probes'[idx] = probes[idx]
          /\ i < Len(networks) =>
                 /\ i' = i + 1
                 /\ probes'[i] = probes[i] + 1
                 /\ \E w \in BagToSet(workers') : w.idx = i /\ w.pc = "fetch"
      ]_vars

FailureIsolatedWitness ==
    \E j, k \in Indices :
        /\ Failed(j)
        /\ k >= concurrency
        /\ Succeeded(k)

\* C5: a recorded outcome is fully successful (payload, enriched senders and
\* summary, no error) or fully failed (error, none of the other three).
FullyPopulated(o) ==
    \/ /\ o.ok
       /\ {"data", "summary"} \subseteq DOMAIN o
       /\ IsArray(Get(o.data, "senders"))
       /\ \A k \in DOMAIN o.data.obj.senders.arr :
              "usdValue" \in DOMAIN o.data.obj.senders.arr[k].obj
       /\ "error" \notin DOMAIN o
    \/ /\ ~o.ok
       /\ "error" \in DOMAIN o
       /\ {"data", "summary"} \cap DOMAIN o = {}

SuccessOrFailure ==
    \A idx \in Indices : Recorded(idx) => FullyPopulated(Outcome(idx))

SuccessOrFailureWitness ==
    \E j, k \in Indices :
        /\ Failed(j)
        /\ Succeeded(k)
        /\ Outcome(k).summary.senderCount > 0

\* C6: a non-2xx response with status S gives ok = false, status = S,
\* error = "HTTP S", no data, no summary, and its body is never parsed.
HttpErrorOf(status) ==
    CASE status = 404 -> "HTTP 404"
      [] status = 503 -> "HTTP 503"

Non2xxOutcome ==
    \A idx \in Indices :
        Replied(idx) /\ ~ResponseOk(relayer[idx].status) =>
            /\ parsed[idx] = 0
            /\ Recorded(idx) =>
                   /\ Outcome(idx).ok = FALSE
                   /\ Outcome(idx).status = relayer[idx].status
                   /\ Outcome(idx).error = HttpErrorOf(relayer[idx].status)
                   /\ {"data", "summary"} \cap DOMAIN Outcome(idx) = {}

Non2xxOutcomeWitness ==
    \E idx \in Indices :
        /\ Recorded(idx)
        /\ Replied(idx)
        /\ relayer[idx].status = 503

\* C7: status 0 is recorded if and only if the probe received no response,
\* with the fault's message as the error; when the remote replied, the
\* recorded status is the remote's status code.
StatusZeroIffNoResponse ==
    \A idx \in Indices :
        Recorded(idx) =>
            /\ Outcome(idx).status = 0 <=> ~Replied(idx)
            /\ ~Replied(idx) => Outcome(idx).error = relayer[idx].fault
            /\ Replied(idx) => Outcome(idx).status = relayer[idx].status

\* C8: when the price lookup fails (the feed call throws or the feed answers
\* non-2xx) the request still runs to its snapshot, whose pricing.error is
\* non-null and idsPriced empty; every network is probed, every usdPrice is
\* null, and every network that answered 2xx reports ok = true with null USD
\* fields.
LookupFailed ==
    /\ priceCalls = 1
    /\ pc \notin {"resolve", "priceFetch"}
    /\ IsFault(priceFeed) \/ ~ResponseOk(priceFeed.status)

UsdFieldsNull(o) ==
    /\ o.nativeToken.usdPrice = Null
    /\ o.ok =>
           /\ o.summary.totalUsd = Null
           /\ o.summary.minUsd = Null
           /\ \A k \in DOMAIN o.data.obj.senders.arr :
                  o.data.obj.senders.arr[k].obj.usdValue = Null

PricingFailureSnapshot(mustSucceed) ==
    LookupFailed =>
        /\ pc = "done" \/ ENABLED Next
        /\ pc = "done" =>
               /\ snapshot.pricing.error # Null
               /\ snapshot.pricing.idsPriced = {}
               /\ \A idx \in Indices :
                      /\ probes[idx] = 1
                      /\ Recorded(idx)
                      /\ UsdFieldsNull(snapshot.results[idx + 1])
                      /\ idx \in mustSucceed => snapshot.results[idx + 1].ok

\* C8 as stated: every network whose probe returns 2xx reports ok = true.
PricingFailureNonFatal ==
    PricingFailureSnapshot({idx \in Indices : Replied2xx(idx)})

ParsedBody(idx) == Replied2xx(idx) /\ Parses(relayer[idx].body)

\* C8, amended: every network whose probe returns 2xx with a body that parses
\* as JSON reports ok = true with null USD fields; the rest as stated.
PricingFailureNonFatalParsed ==
    PricingFailureSnapshot({idx \in Indices : ParsedBody(idx)})

PricingFailureNonFatalWitness ==
    /\ LookupFailed
    /\ pc = "done"
    /\ \E idx \in Indices :
           /\ snapshot.results[idx + 1].ok
           /\ snapshot.results[idx + 1].summary.senderCount > 0

\* C9: an outcome whose network has no known price has usdPrice null and, if
\* successful, null usdValue on every sender, null totalUsd and null minUsd.
NoKnownPrice(idx) ==
    LET id == ResolveId(networks[idx + 1])
    IN  id = Undefined \/ id.str \notin DOMAIN pricesUsd

UnknownPriceIsNull ==
    \A idx \in Indices :
        Recorded(idx) /\ NoKnownPrice(idx) => UsdFieldsNull(Outcome(idx))

UnknownPriceIsNullWitness ==
    \E idx \in Indices :
        /\ Succeeded(idx)
        /\ NoKnownPrice(idx)
        /\ Outcome(idx).summary.senderCount > 0
        /\ Outcome(idx).summary.minNative = Num(0)

\* C10: the snapshot is assembled only after every worker has exited: when
\* the response is built no probe is in flight and every slot holds its
\* outcome, and no slot is written afterwards.
AssembledAfterWorkers ==
    /\ [](pc = "done" =>
            /\ exited = concurrency
            /\ workers = EmptyBag
            /\ \A idx \in Indices : Recorded(idx)
            /\ snapshot.results = results)
    /\ [][pc' = "done" => results' = results]_vars

AssembledAfterWorkersWitness ==
    /\ pc = "done"
    /\ Len(networks) > concurrency
    /\ \A idx \in Indices : Recorded(idx)

\* C11: if every probe completes (the price call always does here), every
\* worker exits and the snapshot is produced, for any network count.
Hung == {idx \in Indices : relayer[idx] = Pending}

SnapshotProduced ==
    Hung = {} => <>(pc = "done" /\ exited = concurrency /\ snapshot # Null)

SnapshotProducedWitness ==
    /\ Hung = {}
    /\ Len(networks) > concurrency
    /\ pc = "done"
    /\ exited = concurrency

\* C12: if fewer than 12 probes hang, every network whose probe does not
\* hang is eventually claimed and has its outcome recorded.
HangStallsOneWorker ==
    Cardinality(Hung) < 12 =>
        <>(\A idx \in Indices \ Hung : probes[idx] = 1 /\ Recorded(idx))

HangStallsOneWorkerWitness ==
    /\ Cardinality(Hung) = 11
    /\ Len(networks) > concurrency
    /\ InFlight = 11
    /\ exited = 1
    /\ \A idx \in Indices \ Hung : probes[idx] = 1 /\ Recorded(idx)

\* What the upstream answers determine, computed without the pool: the price
\* table, a network's price, its outcome.
ExpectedPrices ==
    IF /\ IdsNeeded(networks) # <<>>
       /\ IsResponse(priceFeed)
       /\ ResponseOk(priceFeed.status)
       /\ Priceable(priceFeed.body)
    THEN PricesOf(priceFeed.body.json)
    ELSE <<>>

ExpectedPrice(idx) ==
    LET id == ResolveId(networks[idx + 1])
    IN  IF id # Undefined /\ id.str \in DOMAIN ExpectedPrices
        THEN Num(ExpectedPrices[id.str])
        ELSE Null

ExpectedOutcome(idx) ==
    LET n == networks[idx + 1]
        r == relayer[idx]
        w == [coinGeckoId |-> ResolveId(n), usdPrice |-> ExpectedPrice(idx),
              res |-> IF IsResponse(r) THEN r.status ELSE 0]
    IN  CASE IsFault(r) -> CaughtFailure(n, w, r.fault)
          [] IsResponse(r) /\ ~ResponseOk(r.status) -> HttpFailure(n, w, r.status)
          [] IsResponse(r) /\ ResponseOk(r.status) /\ ~Parses(r.body) ->
                 CaughtFailure(n, w, ParseError)
          [] OTHER -> Success(n, w, r.body.json)

\* C13: for fixed upstream answers the snapshot, its timestamp aside, is the
\* same whatever the interleaving of the workers and the order in which the
\* probes complete: it is a function of the answers.
SnapshotDetermined ==
    pc = "done" =>
        /\ snapshot.results = [k \in 1..Len(networks) |-> ExpectedOutcome(k - 1)]
        /\ snapshot.count = Len(networks)
        /\ snapshot.pricing.idsPriced = DOMAIN ExpectedPrices
        /\ snapshot.pricing.idsRequested = IdsNeeded(networks)
        /\ snapshot.pricing.apiKeyPresent = (apiKey # Undefined)
        /\ DOMAIN snapshot = {"generatedAt", "pricing", "count", "results"}

SnapshotDeterminedWitness ==
    /\ pc = "done"
    /\ Len(networks) > concurrency
    /\ \E j, k \in Indices : j < k /\ Succeeded(j) /\ Failed(k)

\* The sender list of the payload a network answered, and a sender's native
\* balance (0 unless it is a number).
Answered(idx) == Replied2xx(idx) /\ Parses(relayer[idx].body) /\ Recorded(idx)
RawPayload(idx) == relayer[idx].body.json
HasSenderList(idx) == IsArray(Get(RawPayload(idx), "senders"))
RawSenders(idx) ==
    IF HasSenderList(idx) THEN RawPayload(idx).obj.senders.arr ELSE <<>>
RawBalance(s) ==
    IF IsObject(s) /\ "etherBalance" \in DOMAIN s.obj /\ IsNumber(s.obj.etherBalance)
    THEN s.obj.etherBalance.num
    ELSE 0
EnrichedOf(idx) == Outcome(idx).data.obj.senders.arr

RECURSIVE SumOfBalances(_, _)
SumOfBalances(senders, upTo) ==
    IF upTo = 0 THEN 0
    ELSE SumOfBalances(senders, upTo - 1) + RawBalance(senders[upTo])

\* C14: a 2xx payload without a sender list, or whose senders is no list,
\* gives a successful outcome with no enriched senders, senderCount 0 and
\* minNative null.
MalformedSendersAreEmpty ==
    \A idx \in Indices :
        Answered(idx) /\ ~HasSenderList(idx) =>
            /\ Outcome(idx).ok
            /\ Outcome(idx).data.obj.senders = Arr(<<>>)
            /\ Outcome(idx).summary.senderCount = 0
            /\ Outcome(idx).summary.minNative = Null

MalformedSendersAreEmptyWitness ==
    \E idx \in Indices :
        /\ Answered(idx)
        /\ Get(RawPayload(idx), "senders") = Str("none")

\* C15: totalNative is the sum of the senders' native balances; totalUsd is
\* totalNative times the network's price when it is known, and null when not.
TotalsAreSums ==
    \A idx \in Indices :
        Answered(idx) =>
            LET total == SumOfBalances(RawSenders(idx), Len(RawSenders(idx)))
                price == ExpectedPrice(idx)
            IN  /\ Outcome(idx).summary.totalNative = total
                /\ Outcome(idx).summary.totalUsd =
                       (IF price = Null THEN Null ELSE Num(total * price.num))

TotalsAreSumsWitness ==
    \E idx \in Indices :
        /\ Answered(idx)
        /\ Len(RawSenders(idx)) = 2
        /\ Outcome(idx).summary.totalNative = 6
        /\ Outcome(idx).summary.totalUsd = Num(12000)

\* C16: minNative is null exactly when the sender list is empty; otherwise it
\* is the least of the senders' native balances.
MinIsLeast ==
    \A idx \in Indices :
        Answered(idx) =>
            LET senders == RawSenders(idx)
                min == Outcome(idx).summary.minNative
            IN  /\ min = Null <=> Len(senders) = 0
                /\ Len(senders) # 0 =>
                       /\ IsNumber(min)
                       /\ \A k \in DOMAIN senders : min.num <= RawBalance(senders[k])
                       /\ \E k \in DOMAIN senders : min.num = RawBalance(senders[k])

MinIsLeastWitness ==
    \E idx \in Indices :
        /\ Answered(idx)
        /\ Len(RawSenders(idx)) = 2
        /\ RawBalance(RawSenders(idx)[1]) = 3
        /\ Outcome(idx).summary.minNative = Num(0 - 1)

\* C17: zeroCount is the number of senders whose balance is <= 0, a sender
\* without a balance counting as balance 0 (for balances that are numbers or
\* absent).
NumericOrAbsent(s) == IsNumber(Get(s, "etherBalance")) \/ IsNullish(Get(s, "etherBalance"))

ZeroCountCounts ==
    \A idx \in Indices :
        Answered(idx) /\ (\A k \in DOMAIN RawSenders(idx) : NumericOrAbsent(RawSenders(idx)[k])) =>
            Outcome(idx).summary.zeroCount =
                Cardinality({k \in DOMAIN RawSenders(idx) : RawBalance(RawSenders(idx)[k]) <= 0})

ZeroCountCountsWitness ==
    \E idx \in Indices :
        /\ Answered(idx)
        /\ Len(RawSenders(idx)) = 2
        /\ Get(RawSenders(idx)[1], "etherBalance") = Undefined
        /\ Get(RawSenders(idx)[2], "etherBalance") = Num(0)
        /\ Outcome(idx).summary.zeroCount = 2

\* C18: every sender's usdValue is its native balance times the network's
\* price when the price is known, and null when not.
UsdValueIsProduct ==
    \A idx \in Indices :
        Answered(idx) =>
            /\ Len(EnrichedOf(idx)) = Len(RawSenders(idx))
            /\ \A k \in DOMAIN RawSenders(idx) :
                   EnrichedOf(idx)[k].obj.usdValue =
                       (IF ExpectedPrice(idx) = Null THEN Null
                        ELSE Num(RawBalance(RawSenders(idx)[k]) * ExpectedPrice(idx).num))

UsdValueIsProductWitness ==
    \E idx \in Indices :
        /\ Answered(idx)
        /\ Len(RawSenders(idx)) = 1
        /\ ExpectedPrice(idx) = Num(2000)
        /\ EnrichedOf(idx)[1].obj.usdValue = Num(6000)
        /\ Outcome(idx).summary.totalUsd = Num(6000)

\* C19 as stated: no more than min(12, networkCount) workers are started.
SpawnsMinWorkers ==
    spawned <= (IF Len(networks) < 12 THEN Len(networks) ELSE 12)

\* C19, amended: 12 workers are always started; the k-th claims a network and
\* issues its probe when k <= networkCount, and otherwise returns at once
\* without a probe, so min(12, networkCount) workers ever probe.
SpawnsPoolOfTwelve ==
    /\ [](spawned <= 12 /\ (pc = "done" => spawned = 12))
    /\ [][spawned' = spawned + 1 =>
            IF spawned < Len(networks)
            THEN /\ InFlight' = InFlight + 1
                 /\ probes'[spawned] = 1
                 /\ exited' = exited
            ELSE /\ InFlight' = InFlight
                 /\ probes' = probes
                 /\ exited' = exited + 1
         ]_vars

SpawnsPoolOfTwelveWitness ==
    /\ spawned = 12
    /\ Len(networks) = 1
    /\ InFlight = 1
    /\ exited = 11

\* C20 as stated: throughout the fan-out the result array has the length of
\* the registry.
ResultsPreSized ==
    pc = "fanout" /\ spawned >= 1 => Len(results) = Len(networks)

\* C20, amended: the result array starts empty and grows as slots are written
\* by index: it is never longer than the registry, its last element is a
\* written slot, a written slot k holds the outcome of network k, and it has
\* the length of the registry once every worker has exited.
ResultsGrowByIndex ==
    /\ Len(results) <= Len(networks)
    /\ spawned = 0 => results = <<>>
    /\ Len(results) > 0 => results[Len(results)] # Hole
    /\ \A k \in 1..Len(results) :
           results[k] # Hole => results[k].network = networks[k]
    /\ AllWorkersDone => Len(results) = Len(networks)

ResultsGrowByIndexWitness ==
    /\ pc = "fanout"
    /\ Len(results) = Len(networks)
    /\ \E k \in 1..Len(results) : results[k] = Hole

\* C21: a result slot is written once, by the worker that claimed its index:
\* the step that fills slot idx is taken by the one worker holding idx, which
\* then holds it no more; no worker holds the index of a written slot; and a
\* written slot never changes again.
SlotWrittenOnce ==
    /\ [](\A idx \in Indices : Recorded(idx) => ClaimedBy(idx) = {})
    /\ [][\A idx \in Indices :
            /\ Recorded(idx) =>
                   /\ idx + 1 <= Len(results')
                   /\ results'[idx + 1] = results[idx + 1]
            /\ ~Recorded(idx) /\ idx + 1 <= Len(results') /\ results'[idx + 1] # Hole =>
                   /\ Cardinality(ClaimedBy(idx)) = 1
                   /\ \A w \in ClaimedBy(idx) :
                          /\ CopiesIn(w, workers) = 1
                          /\ CopiesIn(w, workers') = 0
                   /\ \A j \in Indices \ {idx} :
                          j + 1 <= Len(results') /\ results'[j + 1] # Hole => Recorded(j)
         ]_vars

SlotWrittenOnceWitness ==
    /\ pc = "fanout"
    /\ Len(networks) > concurrency
    /\ \E j, k \in Indices :
           /\ j < k
           /\ ~Recorded(j)
           /\ ClaimedBy(j) # {}
           /\ Recorded(k)
           /\ k >= concurrency

\* The price lookup has completed: with the table the feed's answer gives, or
\* with an error and an empty table.
LookupError ==
    /\ IdsNeeded(networks) # <<>>
    /\ \/ IsFault(priceFeed)
       \/ ~ResponseOk(priceFeed.status)
       \/ ~Priceable(priceFeed.body)

LookupCompleted ==
    /\ pc \in {"fanout", "done"}
    /\ coinGeckoIdByNetworkName = IdByName(networks)
    /\ pricesUsd = ExpectedPrices
    /\ pricingError # Null <=> LookupError

\* C22: no probe starts before the price lookup has completed, and from the
\* first probe on the price table and the map from network name to identifier
\* are never modified.
PricesReadOnly ==
    /\ []((spawned > 0 \/ i > 0 \/ workers # EmptyBag) => LookupCompleted)
    /\ [][i > 0 =>
            /\ pricesUsd' = pricesUsd
            /\ coinGeckoIdByNetworkName' = coinGeckoIdByNetworkName
            /\ pricingError' = pricingError
         ]_vars

PricesReadOnlyWitness ==
    /\ pc = "done"
    /\ pricesUsd # <<>>
    /\ \E idx \in Indices : Succeeded(idx) /\ Outcome(idx).nativeToken.usdPrice = Num(2000)

\* The price feed answered the lookup with a 2xx response carrying a JSON
\* object, and the lookup is over.
FeedAnswered ==
    /\ priceCalls = 1
    /\ pc \in {"fanout", "done"}
    /\ IsResponse(priceFeed)
    /\ ResponseOk(priceFeed.status)
    /\ Parses(priceFeed.body)
    /\ IsObject(priceFeed.body.json)

FeedEntries == priceFeed.body.json.obj

HasNumericQuote(entry) ==
    /\ "obj" \in DOMAIN entry
    /\ "usd" \in DOMAIN entry.obj
    /\ "num" \in DOMAIN entry.obj.usd

\* C23: on a 2xx price-feed response the lookup returns exactly the
\* identifiers whose entry carries a numeric usd quote, each with that quote;
\* an entry without one is left out and the lookup does not fail.
PricedExactlyQuoted ==
    FeedAnswered =>
        /\ DOMAIN pricesUsd = {id \in DOMAIN FeedEntries : HasNumericQuote(FeedEntries[id])}
        /\ \A id \in DOMAIN pricesUsd : pricesUsd[id] = FeedEntries[id].obj.usd.num
        /\ pricingError = Null

PricedExactlyQuotedWitness ==
    /\ FeedAnswered
    /\ pc = "done"
    /\ DOMAIN FeedEntries = {"ethereum", "bitcoin"}
    /\ FeedEntries["ethereum"] = Obj([usd |-> Str("2000")])
    /\ DOMAIN pricesUsd = {"bitcoin"}
    /\ \E idx \in Indices : Succeeded(idx)

\* C27: in every snapshot pricing.idsPriced is a subset of
\* pricing.idsRequested.
PricedAreRequested ==
    pc = "done" => snapshot.pricing.idsPriced \subseteq Range(snapshot.pricing.idsRequested)

\* The own fields of a payload or of a sender (none when it is no object).
FieldsOf(v) == IF "obj" \in DOMAIN v THEN DOMAIN v.obj ELSE {}

\* C24: the enriched payload of a successful outcome has every field of the
\* raw payload other than senders, each with its raw value, and no other field
\* but senders; its senders is the enriched list, of the raw list's length,
\* whose k-th sender has the fields of the k-th raw sender (each with its raw
\* value, usdValue aside) and usdValue.
PayloadPreserved ==
    \A idx \in Indices :
        Answered(idx) =>
            LET raw == RawPayload(idx)
                payload == Outcome(idx).data.obj
                senders == RawSenders(idx)
            IN  /\ Outcome(idx).ok
                /\ DOMAIN payload = FieldsOf(raw) \cup {"senders"}
                /\ \A f \in FieldsOf(raw) \ {"senders"} : payload[f] = raw.obj[f]
                /\ "arr" \in DOMAIN payload.senders
                /\ Len(payload.senders.arr) = Len(senders)
                /\ \A k \in DOMAIN senders :
                       LET enriched == payload.senders.arr[k].obj
                       IN  /\ DOMAIN enriched = FieldsOf(senders[k]) \cup {"usdValue"}
                           /\ \A f \in FieldsOf(senders[k]) \ {"usdValue"} :
                                  enriched[f] = senders[k].obj[f]

PayloadPreservedWitness ==
    \E idx \in Indices :
        /\ Answered(idx)
        /\ RawPayload(idx) = PayloadQuoted
        /\ Outcome(idx).data.obj.uptime = Num(86400)
        /\ Outcome(idx).data.obj.senders.arr[2].obj.active = Str("false")
        /\ Outcome(idx).data.obj.senders.arr[2].obj.usdValue = Num(0)

\* C26: for a successful outcome with a non-empty sender list, zeroCount > 0
\* if and only if minNative <= 0, whatever the balances are.
ZeroCountAgreesWithMin ==
    \A idx \in Indices :
        Answered(idx) /\ Outcome(idx).summary.senderCount > 0 =>
            (Outcome(idx).summary.zeroCount > 0
                <=> Outcome(idx).summary.minNative.num <= 0)

\* A list without its k-th element.
Remove(list, k) == SubSeq(list, 1, k - 1) \o SubSeq(list, k + 1, Len(list))

\* C25: a result with ok = false adds 1 to the dashboard's down count and
\* nothing to its up count, zero-balance sender count, low-ETH count or USD
\* total (in both variants of the summary), and the 'zero' filter never
\* selects it, whatever the query.
DownIsNotZeroBalance ==
    \A k \in DOMAIN Results :
        ~Results[k].ok =>
            LET all == SummaryOf(Results)
                others == SummaryOf(Remove(Results, k))
                earlier == EarlierSummaryOf(Results)
                earlierOthers == EarlierSummaryOf(Remove(Results, k))
            IN  /\ all.chainsDown = others.chainsDown + 1
                /\ all.chainsUp = others.chainsUp
                /\ all.zeroSenders = others.zeroSenders
                /\ all.lowEthChains = others.lowEthChains
                /\ all.totalUsd = others.totalUsd
                /\ earlier.chainsDown = earlierOthers.chainsDown + 1
                /\ earlier.chainsUp = earlierOthers.chainsUp
                /\ earlier.zeroSenders = earlierOthers.zeroSenders
                /\ \A q \in Queries :
                       Results[k] \notin Range(FilteredOf(Results, q, "zero"))
                /\ filter = "zero" => Results[k] \notin Range(Filtered)

DownIsNotZeroBalanceWitness ==
    /\ data # Null
    /\ filter = "zero"
    /\ query = ""
    /\ \E k \in DOMAIN Results : ~Results[k].ok /\ Results[k].status = 503
    /\ Len(Filtered) = 1
    /\ Filtered[1].ok
    /\ SummaryOf(Results).chainsDown = 1
    /\ SummaryOf(Results).zeroSenders = 1

\* C28: no summary of the aggregator has a lowEth field, so the dashboard's
\* low-ETH chain count is 0 and the 'lowEth' filter shows no network,
\* whatever the balances, the prices and the query.
LowEthNeverSet ==
    /\ \A idx \in Indices :
           Succeeded(idx) => "lowEth" \notin DOMAIN Outcome(idx).summary
    /\ \A k \in DOMAIN Results : ~LowEth(Results[k])
    /\ SummaryOf(Results).lowEthChains = 0
    /\ \A q \in Queries : FilteredOf(Results, q, "lowEth") = <<>>
    /\ filter = "lowEth" => Filtered = <<>>

LowEthNeverSetWitness ==
    /\ data # Null
    /\ filter = "lowEth"
    /\ Filtered = <<>>
    /\ \E k \in DOMAIN Results :
           /\ Results[k].ok
           /\ Results[k].summary.minUsd = Num(0)
           /\ Results[k].summary.totalUsd = Num(10000)

\* The load under way fails: its fetch rejects, the response is not 2xx, or
\* the body is no JSON.
LoadFails ==
    \/ IsFault(Response)
    \/ ~ResponseOk(Response.status)
    \/ ~Parses(Response.body)

ErrorOfLoad ==
    CASE IsFault(Response) -> Str(Response.fault)
      [] ~ResponseOk(Response.status) -> Str("HTTP 500")
      [] OTHER -> Str(ParseError)

\* C29: a load() that ends leaves loading = false; a load that fails sets
\* error and leaves the loaded snapshot as it was; a load that succeeds
\* replaces the snapshot by the one received and leaves error null; no other
\* step changes the snapshot, and loading is false whenever no load runs.
LoadOutcome ==
    /\ [](load = "idle" => ~loading)
    /\ [][load # "idle" /\ load' = "idle" =>
            /\ loading' = FALSE
            /\ IF LoadFails
               THEN error' = ErrorOfLoad /\ data' = data
               ELSE error' = Null /\ data' = Serialize(snapshot) /\ data' # Null
         ]_vars
    /\ [][load' # "idle" \/ load = "idle" => data' = data]_vars

LoadOutcomeWitness ==
    /\ loads = 2
    /\ load = "idle"
    /\ ~loading
    /\ data # Null
    /\ error = Str("HTTP 500")

====
